---- MODULE Spec2Model ----
(***************************************************************************)
(* Model of fabric_nodes/launch/fabric_nodes.launch.py: the configuration *)
(* validator (validate_config), the loader (load_config), the expander    *)
(* (class Config2Nodes) and the pipeline of generate_launch_description.  *)
(*                                                                         *)
(* A parsed YAML mapping is a TLA+ function whose domain is the set of    *)
(* keys present, so `'qty' in node_config` is "qty" \in DOMAIN node_config.*)
(* A YAML list is a sequence.  Names are strings; suffixed names are built *)
(* by string concatenation exactly as the code builds them.               *)
(***************************************************************************)
EXTENDS Integers, Sequences, FiniteSets, TLC

\* ------------------------------------------------------------------ bounds
\* Quantities written in a document range over 0..MaxQty.
MaxQty == 2
\* Longest publishers / subscribers list of a node.
MaxTopics == 2
\* Most nodes of an environment.
MaxNodes == 2
\* Most environments of a document.
MaxEnvs == 2
\* Most calls of get_nodes on one Config2Nodes instance.
MaxCalls == 2

\* ------------------------------------------------- Python dict primitives
\* `key in d`
Has(d, key) == key \in DOMAIN d

\* d.get(key, default)
Get(d, key, default) == IF key \in DOMAIN d THEN d[key] ELSE default

\* An assignment that keeps the value of an existing key.
SetItemKeepFirst(d, key, value) ==
    [k \in (DOMAIN d) \cup {key} |-> IF k \in DOMAIN d THEN d[k] ELSE value]

\* d[key] = value : a later assignment to an existing key overwrites it.
SetItem(d, key, value) ==
    [k \in (DOMAIN d) \cup {key} |-> IF k = key THEN value ELSE d[k]]

\* {} and []
Empty == <<>>

\* ------------------------------------------------------------- exceptions
NoError == [exc |-> "None"]

ValueError(msg) == [exc |-> "ValueError", msg |-> msg]

KeyError(key) == [exc |-> "KeyError", msg |-> key]

Raised(r) == r.exc # "None"

\* --------------------------------------------------------- validate_config
\* sum(parameter in publisher for parameter in
\*     ['bandwidth', 'msg_size', 'msg_frequency'])
parameter_count(publisher) ==
    Cardinality({"bandwidth", "msg_size", "msg_frequency"} \cap DOMAIN publisher)

\* Body of the loop over node_publishers for one publisher (lines 36-43).
validate_publisher(publisher, node_config) ==
    IF Get(publisher, "qty", 1) < 1
    THEN ValueError("Invalid publisher quantity for publisher '"
                    \o publisher["name"] \o "' in node '"
                    \o node_config["name"] \o "'")
    ELSE IF parameter_count(publisher) < 2
    THEN ValueError("Publisher '" \o publisher["name"] \o "' in node '"
                    \o node_config["name"]
                    \o "' must have at least two of the following parameters: bandwidth, msg_size, msg_frequency")
    ELSE NoError

\* Body of the loop over node_subscribers for one subscriber (lines 48-50).
validate_subscriber(subscriber, node_config) ==
    IF Get(subscriber, "qty", 1) < 1
    THEN ValueError("Invalid subscriber quantity for subscriber '"
                    \o subscriber["name"] \o "' in node '"
                    \o node_config["name"] \o "'")
    ELSE NoError

\* for publisher in node_publishers: ... ; the first raise ends the loop.
RECURSIVE validate_publishers(_, _, _)
validate_publishers(node_publishers, i, node_config) ==
    IF i > Len(node_publishers) THEN NoError
    ELSE LET r == validate_publisher(node_publishers[i], node_config)
         IN IF Raised(r) THEN r
            ELSE validate_publishers(node_publishers, i + 1, node_config)

\* for subscriber in node_subscribers: ... ; the first raise ends the loop.
RECURSIVE validate_subscribers(_, _, _)
validate_subscribers(node_subscribers, i, node_config) ==
    IF i > Len(node_subscribers) THEN NoError
    ELSE LET r == validate_subscriber(node_subscribers[i], node_config)
         IN IF Raised(r) THEN r
            ELSE validate_subscribers(node_subscribers, i + 1, node_config)

\* The root_node / terminal_node rules (lines 52-60).  The last two rules
\* test the PRESENCE of the key, not the length of the list.
validate_roles(node_config) ==
    LET root_node == Get(node_config, "root_node", FALSE)
        terminal_node == Get(node_config, "terminal_node", FALSE)
    IN IF root_node /\ terminal_node
       THEN ValueError("Node '" \o node_config["name"]
                       \o "' cannot be both a terminal node and a root node")
       ELSE IF root_node /\ Has(node_config, "subscribers")
       THEN ValueError("Root node '" \o node_config["name"]
                       \o "' cannot have subscribers")
       ELSE IF terminal_node /\ Has(node_config, "publishers")
       THEN ValueError("Terminal node '" \o node_config["name"]
                       \o "' cannot have publishers")
       ELSE NoError

\* Body of the loop over environment['nodes'] for one node (lines 28-60).
validate_node(node_config) ==
    IF Get(node_config, "qty", 1) < 1
    THEN ValueError("Invalid node quantity for node '"
                    \o node_config["name"] \o "'")
    ELSE LET p == validate_publishers(Get(node_config, "publishers", Empty),
                                      1, node_config)
         IN IF Raised(p) THEN p
            ELSE LET s == validate_subscribers(
                              Get(node_config, "subscribers", Empty),
                              1, node_config)
                 IN IF Raised(s) THEN s ELSE validate_roles(node_config)

\* for node_config in environment['nodes']: ...
RECURSIVE validate_nodes(_, _)
validate_nodes(node_configs, j) ==
    IF j > Len(node_configs) THEN NoError
    ELSE LET r == validate_node(node_configs[j])
         IN IF Raised(r) THEN r ELSE validate_nodes(node_configs, j + 1)

\* A validator that checks only the environment that is expanded.
RECURSIVE validate_expanded_environment_only(_, _)
validate_expanded_environment_only(environments, i) ==
    IF i > Len(environments) THEN NoError
    ELSE LET r == IF environments[i]["name"] = "env1"
                  THEN validate_nodes(environments[i]["nodes"], 1)
                  ELSE NoError
         IN IF Raised(r) THEN r
            ELSE validate_expanded_environment_only(environments, i + 1)

\* for environment in config['environments']: ...
RECURSIVE validate_environments(_, _)
validate_environments(environments, i) ==
    IF i > Len(environments) THEN NoError
    ELSE LET r == validate_nodes(environments[i]["nodes"], 1)
         IN IF Raised(r) THEN r
            ELSE validate_environments(environments, i + 1)

\* validate_config(config): NoError when it returns, the exception otherwise.
validate_config(config) == validate_environments(config["environments"], 1)

\* A loader that returns the parsed document without validating it.
load_config_unvalidated(document) == NoError

\* load_config: the parsed document is validated and then returned; a raise
\* of validate_config propagates.
load_config(document) == validate_config(document)

\* ------------------------------------------------------------ Config2Nodes
\* The environment get_nodes expands (the literal of line 139).
TargetEnv == "env1"

\* A replication loop over range(num, qty): the last replica is missing.
RECURSIVE replicate_topic_short(_, _, _, _, _)
replicate_topic_short(topics, topic_name, topic, num, qty) ==
    IF num >= qty THEN topics
    ELSE replicate_topic_short(
             [k \in (DOMAIN topics) \cup {topic_name \o "_" \o ToString(num)} |->
                 IF k = topic_name \o "_" \o ToString(num) THEN topic
                 ELSE topics[k]],
             topic_name, topic, num + 1, qty)

\* for num in range(num, qty + 1): topics[topic_name + '_' + str(num)] = topic
RECURSIVE replicate_topic(_, _, _, _, _)
replicate_topic(topics, topic_name, topic, num, qty) ==
    IF num > qty THEN topics
    ELSE replicate_topic(
             SetItem(topics, topic_name \o "_" \o ToString(num), topic),
             topic_name, topic, num + 1, qty)

\* The publish_topic mapping of one publisher (lines 81-87): the
\* characterization fields present, with their values.
publish_topic_of(publisher) ==
    [f \in {"msg_size", "bandwidth", "msg_frequency"} \cap DOMAIN publisher
        |-> publisher[f]]

\* Loop of process_publishers from publisher i on (lines 79-93).
RECURSIVE publishers_loop(_, _, _)
publishers_loop(publish_topics, publishers, i) ==
    IF i > Len(publishers) THEN publish_topics
    ELSE LET publisher == publishers[i]
             topic_name == publisher["name"]
             publish_topic == publish_topic_of(publisher)
             publisher_qty == Get(publisher, "qty", 1)
         IN publishers_loop(
                IF publisher_qty # 1
                THEN replicate_topic(publish_topics, topic_name, publish_topic,
                                     1, publisher_qty)
                ELSE SetItem(publish_topics, topic_name, publish_topic),
                publishers, i + 1)

process_publishers(node_config) ==
    IF Has(node_config, "publishers")
    THEN publishers_loop(Empty, node_config["publishers"], 1)
    ELSE Empty

\* Loop of process_subscribers from subscriber i on (lines 99-107).
RECURSIVE subscribers_loop(_, _, _)
subscribers_loop(subscribe_topics, subscribers, i) ==
    IF i > Len(subscribers) THEN subscribe_topics
    ELSE LET subscriber == subscribers[i]
             topic_name == subscriber["name"]
             subscribe_topic == [node |-> subscriber["node"]]
             subscriber_qty == Get(subscriber, "qty", 1)
         IN subscribers_loop(
                IF subscriber_qty # 1
                THEN replicate_topic(subscribe_topics, topic_name,
                                     subscribe_topic, 1, subscriber_qty)
                ELSE SetItem(subscribe_topics, topic_name, subscribe_topic),
                subscribers, i + 1)

process_subscribers(node_config) ==
    IF Has(node_config, "subscribers")
    THEN subscribers_loop(Empty, node_config["subscribers"], 1)
    ELSE Empty

\* create_node: the launch_ros Node the descriptor is handed to.
create_node(name, root_node, terminal_node, publish_topics, subscribe_topics) ==
    [package |-> "fabric_nodes",
     executable |-> "dummy_node_exe",
     name |-> name,
     namespace |-> name,
     parameters |-> <<[root_node |-> root_node,
                       terminal_node |-> terminal_node,
                       publish_topics |-> publish_topics,
                       subscribe_topics |-> subscribe_topics]>>,
     output |-> "screen"]

\* generate_node: self.nodes after the appends.  The branch is taken on the
\* PRESENCE of 'qty', so an explicit qty of 1 yields the one name X_1.
generate_node(self_nodes, node_config, node_name, root_node, terminal_node, publish_topics, subscribe_topics) ==
    IF Has(node_config, "qty")
    THEN self_nodes \o
         [num \in 1..node_config["qty"] |->
             create_node(node_name \o "_" \o ToString(num), root_node,
                         terminal_node, publish_topics, subscribe_topics)]
    ELSE Append(self_nodes,
                create_node(node_name, root_node, terminal_node,
                            publish_topics, subscribe_topics))

\* Inner loop of get_nodes from node j on (lines 141-150).  The subscripts
\* node_config['root_node'] and node_config['terminal_node'] raise KeyError
\* when the key is absent; what was appended before stays in self.nodes.
RECURSIVE nodes_loop(_, _, _)
nodes_loop(self_nodes, node_configs, j) ==
    IF j > Len(node_configs) THEN [nodes |-> self_nodes, exc |-> NoError]
    ELSE LET node_config == node_configs[j]
         IN IF ~Has(node_config, "root_node")
            THEN [nodes |-> self_nodes, exc |-> KeyError("root_node")]
            ELSE IF ~Has(node_config, "terminal_node")
            THEN [nodes |-> self_nodes, exc |-> KeyError("terminal_node")]
            ELSE nodes_loop(
                     generate_node(self_nodes, node_config,
                                   node_config["name"],
                                   node_config["root_node"],
                                   node_config["terminal_node"],
                                   process_publishers(node_config),
                                   process_subscribers(node_config)),
                     node_configs, j + 1)

\* An outer loop that expands every environment, whatever its name.
RECURSIVE environments_loop_unfiltered(_, _, _)
environments_loop_unfiltered(self_nodes, environments, i) ==
    IF i > Len(environments) THEN [nodes |-> self_nodes, exc |-> NoError]
    ELSE LET r == nodes_loop(self_nodes, environments[i]["nodes"], 1)
         IN IF Raised(r.exc) THEN r
            ELSE environments_loop_unfiltered(r.nodes, environments, i + 1)

\* Outer loop of get_nodes from environment i on (lines 138-140).
RECURSIVE environments_loop(_, _, _)
environments_loop(self_nodes, environments, i) ==
    IF i > Len(environments) THEN [nodes |-> self_nodes, exc |-> NoError]
    ELSE IF environments[i]["name"] # TargetEnv
    THEN environments_loop(self_nodes, environments, i + 1)
    ELSE LET r == nodes_loop(self_nodes, environments[i]["nodes"], 1)
         IN IF Raised(r.exc) THEN r
            ELSE environments_loop(r.nodes, environments, i + 1)

\* get_nodes on an instance whose self.nodes is self_nodes: the new
\* self.nodes (which is also the list returned) and the exception, if any.
get_nodes(self_nodes, config) ==
    environments_loop(self_nodes, config["environments"], 1)

\* ------------------------------------------------------------- documents
\* The parsed documents the pipeline is run on.  Every mapping carries the
\* keys the code subscripts unconditionally ('environments', 'name',
\* 'nodes', a subscriber's 'node'); every key the code reads with .get or
\* tests with `in` may be absent.

\* An optional key: absent, or present with one of the values.
Opt(key, values) == {Empty} \cup {key :> v : v \in values}

Qtys == 0..MaxQty

EnvNames == {"env1", "env2"}

TopicNames == {"cam", "cam_1"}

SourceRefs == {"sensor", "lidar"}

Characterization == [msg_size |-> 100, bandwidth |-> 50, msg_frequency |-> 10]

FieldSets == {{"bandwidth"}, {"msg_size", "bandwidth"},
              {"bandwidth", "msg_frequency"},
              {"msg_size", "bandwidth", "msg_frequency"}}

PublisherSpecs ==
    {("name" :> n) @@ q @@ [f \in fs |-> Characterization[f]] :
        n \in TopicNames, q \in Opt("qty", Qtys), fs \in FieldSets}

SubscriberSpecs ==
    {("name" :> n) @@ ("node" :> src) @@ q :
        n \in TopicNames, src \in SourceRefs, q \in Opt("qty", Qtys)}

\* The name of node j of environment i.
NodeName(i, j) == "n" \o ToString(i) \o ToString(j)

\* A well-formed node with no quantity and no topics.
PlainNode(name) ==
    [name |-> name, root_node |-> FALSE, terminal_node |-> FALSE]

GoodPublisher == [name |-> "cam", msg_size |-> 100, bandwidth |-> 50]

GoodSubscriber == [name |-> "img", node |-> "sensor"]

\* publishers / subscribers of a node of NodeSpecs: each absent, empty, or
\* one entry that is well-formed or breaks one rule.
TopicChoices ==
    {Empty,
     "publishers" :> <<>>,
     "subscribers" :> <<>>,
     "publishers" :> <<GoodPublisher>>,
     "subscribers" :> <<GoodSubscriber>>,
     "publishers" :> <<[name |-> "cam", bandwidth |-> 50]>>,
     "publishers" :> <<GoodPublisher @@ ("qty" :> 0)>>,
     "subscribers" :> <<GoodSubscriber @@ ("qty" :> 0)>>,
     ("publishers" :> <<GoodPublisher @@ ("qty" :> MaxQty)>>)
        @@ ("subscribers" :> <<GoodSubscriber>>)}

\* Node mappings named `name`: every combination of an optional qty, an
\* optional root_node, an optional terminal_node and a topic choice.
NodeSpecs(name) ==
    {("name" :> name) @@ q @@ r @@ t @@ tc :
        q \in Opt("qty", Qtys), r \in Opt("root_node", BOOLEAN),
        t \in Opt("terminal_node", BOOLEAN), tc \in TopicChoices}

\* e environments named by `names`, each of k plain nodes.
PlainEnvironments(names, k) ==
    [i \in DOMAIN names |->
        [name |-> names[i], nodes |-> [j \in 1..k |-> PlainNode(NodeName(i, j))]]]

\* The document of the environments named `names`, of k nodes each, that
\* is plain but for node j of environment i, which is `node`.
Variant(names, k, i, j, node) ==
    [environments |->
        [PlainEnvironments(names, k) EXCEPT ![i].nodes[j] = node]]

\* --------------------------------------------------------------- pipeline
VARIABLES
    document,  \* yaml.safe_load's result
    pc,        \* where the run is
    exc,       \* the exception that ended the run, or NoError
    nodes,     \* converter.nodes
    returns,   \* what each call of get_nodes returned, as it returned
    launch     \* the nodes handed to LaunchDescription

vars == <<document, pc, exc, nodes, returns, launch>>

\* The state generate_launch_description starts in, yaml.safe_load having
\* returned `doc`.
Start(doc) ==
    /\ document = doc
    /\ pc = "start"
    /\ exc = NoError
    /\ nodes = <<>>
    /\ returns = <<>>
    /\ launch = <<>>

\* Documents of 1..MaxEnvs environments of 1..MaxNodes nodes each, plain
\* but for one node, which is any of NodeSpecs.
Init ==
    \E e \in 1..MaxEnvs, k \in 1..MaxNodes :
        \E names \in [1..e -> EnvNames], i \in 1..e, j \in 1..k :
            \E node \in NodeSpecs(NodeName(i, j)) :
                Start(Variant(names, k, i, j, node))

\* Documents of one environment of one node whose publishers and
\* subscribers are any lists over PublisherSpecs and SubscriberSpecs: one
\* list of up to MaxTopics entries, or one entry in each.
InitTopics ==
    \E n \in 0..MaxTopics, m \in 0..MaxTopics :
        /\ n * m <= 1
        /\ \E pubs \in [1..n -> PublisherSpecs],
              subs \in [1..m -> SubscriberSpecs] :
              Start(Variant(<<TargetEnv>>, 1, 1, 1,
                        PlainNode(NodeName(1, 1))
                        @@ (IF n > 0 THEN "publishers" :> pubs ELSE Empty)
                        @@ (IF m > 0 THEN "subscribers" :> subs ELSE Empty)))

\* Node mappings that break no rule, one rule or several rules.
RuleBreakers(name) ==
    {PlainNode(name),
     PlainNode(name) @@ ("qty" :> 0),
     PlainNode(name)
        @@ ("publishers" :> <<[name |-> "cam", bandwidth |-> 50]>>)
        @@ ("subscribers" :> <<GoodSubscriber @@ ("qty" :> 0)>>),
     PlainNode(name)
        @@ ("publishers" :> <<[name |-> "cam", bandwidth |-> 50, qty |-> 0]>>),
     PlainNode(name)
        @@ ("publishers" :> <<GoodPublisher,
                              [name |-> "lidar", msg_size |-> 100]>>)
        @@ ("subscribers" :> <<GoodSubscriber,
                               [name |-> "imu", node |-> "sensor", qty |-> 0]>>),
     [name |-> name, root_node |-> TRUE, terminal_node |-> TRUE, qty |-> 0],
     [name |-> name, root_node |-> TRUE, terminal_node |-> TRUE,
      publishers |-> <<[name |-> "cam", bandwidth |-> 50]>>],
     [name |-> name, root_node |-> TRUE, terminal_node |-> FALSE,
      subscribers |-> <<>>],
     [name |-> name, root_node |-> TRUE, terminal_node |-> FALSE,
      subscribers |-> <<GoodSubscriber>>],
     [name |-> name, root_node |-> FALSE, terminal_node |-> TRUE,
      publishers |-> <<GoodPublisher>>]}

\* Documents of 1..MaxEnvs environments of 1..MaxNodes nodes each, every
\* node any of RuleBreakers.
InitRules ==
    \E e \in 1..MaxEnvs, k \in 1..MaxNodes :
        \E names \in [1..e -> EnvNames] :
            \E envs \in [1..e -> [1..k -> RuleBreakers("n")]] :
                Start([environments |->
                    [i \in 1..e |->
                        [name |-> names[i],
                         nodes |-> [j \in 1..k |->
                            [envs[i][j] EXCEPT !["name"] = NodeName(i, j)]]]]])

\* config = load_config(config_file_path)
LoadConfig ==
    /\ pc = "start"
    /\ exc' = load_config(document)
    /\ pc' = IF Raised(exc') THEN "rejected" ELSE "loaded"
    /\ UNCHANGED <<document, nodes, returns, launch>>

\* converter = Config2Nodes(config)
Construct ==
    /\ pc = "loaded"
    /\ nodes' = <<>>
    /\ pc' = "constructed"
    /\ UNCHANGED <<document, exc, returns, launch>>

\* converter.get_nodes(): generate_launch_description calls it once; the
\* instance stays callable afterwards.
GetNodes ==
    /\ pc \in {"constructed", "expanded"}
    /\ Len(returns) < MaxCalls
    /\ LET r == get_nodes(nodes, document)
       IN /\ nodes' = r.nodes
          /\ exc' = r.exc
          /\ pc' = IF Raised(r.exc) THEN "crashed" ELSE "expanded"
          /\ returns' = IF Raised(r.exc) THEN returns
                        ELSE Append(returns, r.nodes)
    /\ UNCHANGED <<document, launch>>

\* return LaunchDescription(nodes)
Launch ==
    /\ pc = "expanded"
    /\ Len(returns) = 1
    /\ launch' = returns[1]
    /\ pc' = "launched"
    /\ UNCHANGED <<document, exc, nodes, returns>>

Next == LoadConfig \/ Construct \/ GetNodes \/ Launch

Spec == Init /\ [][Next]_vars

SpecTopics == InitTopics /\ [][Next]_vars

SpecRules == InitRules /\ [][Next]_vars

\* ------------------------------------------------- vocabulary of the claims
\* Written from the specification's data model, not from the code: a
\* quantity defaults to 1, a role flag to false, a topic list to empty.
Environments == document["environments"]

\* The places <<i, j>> of the document's nodes.
NodePlaces ==
    UNION {{<<i, j>> : j \in DOMAIN Environments[i]["nodes"]} :
           i \in DOMAIN Environments}

NodeAt(p) == Environments[p[1]]["nodes"][p[2]]

\* The places of the nodes of the environments get_nodes is to expand.
TargetPlaces == {p \in NodePlaces : Environments[p[1]]["name"] = TargetEnv}

Quantity(m) == IF "qty" \in DOMAIN m THEN m["qty"] ELSE 1

IsRoot(n) == "root_node" \in DOMAIN n /\ n["root_node"]

IsTerminal(n) == "terminal_node" \in DOMAIN n /\ n["terminal_node"]

Publishers(n) == IF "publishers" \in DOMAIN n THEN n["publishers"] ELSE <<>>

Subscribers(n) == IF "subscribers" \in DOMAIN n THEN n["subscribers"] ELSE <<>>

\* The characterization fields present on publisher P.
FieldsOf(P) == {"msg_size", "bandwidth", "msg_frequency"} \cap DOMAIN P

\* The naming rule: the base name for quantity 1, else base_1 .. base_q.
NamesFor(base, q) ==
    IF q = 1 THEN <<base>> ELSE [k \in 1..q |-> base \o "_" \o ToString(k)]

Range(f) == {f[x] : x \in DOMAIN f}

\* The rules of the validator that node n breaks.
RulesBroken(n) ==
    {r \in {"node_qty", "publisher_qty", "publisher_parameters",
            "subscriber_qty", "root_and_terminal", "root_has_subscribers",
            "terminal_has_publishers"} :
        CASE r = "node_qty" -> Quantity(n) < 1
          [] r = "publisher_qty" ->
                \E P \in Range(Publishers(n)) : Quantity(P) < 1
          [] r = "publisher_parameters" ->
                \E P \in Range(Publishers(n)) : Cardinality(FieldsOf(P)) < 2
          [] r = "subscriber_qty" ->
                \E S \in Range(Subscribers(n)) : Quantity(S) < 1
          [] r = "root_and_terminal" -> IsRoot(n) /\ IsTerminal(n)
          [] r = "root_has_subscribers" ->
                IsRoot(n) /\ Len(Subscribers(n)) > 0
          [] r = "terminal_has_publishers" ->
                IsTerminal(n) /\ Len(Publishers(n)) > 0}

\* Some node of some environment breaks some rule.
HasViolation == \E p \in NodePlaces : RulesBroken(NodeAt(p)) # {}

\* The run got past load_config.
Loaded == pc \in {"loaded", "constructed", "expanded", "crashed", "launched"}

\* Every descriptor the converter holds or has returned.
Descriptors ==
    Range(nodes) \cup UNION {Range(returns[c]) : c \in DOMAIN returns}

\* ---------------------------------------------------------------------- C3
\* C3: validation gates expansion.  Nothing of the expander exists (no
\* converter, no descriptor, no returned list, no launch description)
\* unless validate_config returned over the whole document; and a document
\* with a rule violation never gets past load_config: the run is at its
\* start or rejected, with zero descriptors.
C3_ValidationGatesExpansion ==
    /\ (Loaded \/ nodes # <<>> \/ returns # <<>> \/ launch # <<>>)
          => ~Raised(validate_config(document))
    /\ (HasViolation \/ pc = "rejected")
          => /\ pc \in {"start", "rejected"}
             /\ nodes = <<>> /\ returns = <<>> /\ launch = <<>>

\* A node of the expanded environment has qty 0 and the run was rejected
\* with nothing produced.
C3_Witness ==
    /\ pc = "rejected"
    /\ \E p \in TargetPlaces :
          "qty" \in DOMAIN NodeAt(p) /\ NodeAt(p)["qty"] = 0
    /\ nodes = <<>> /\ returns = <<>>

\* ---------------------------------------------------------------------- C4
\* C4: rejection is complete over the whole document.  Once load_config
\* has run, a document in which any node of any environment breaks any of
\* the seven rules has been rejected with a ValueError.
C4_RejectionComplete ==
    (pc # "start" /\ HasViolation) => (pc = "rejected" /\ exc.exc = "ValueError")

\* Rejected for a terminal node with a publisher, in an environment that
\* is not the one expanded, every other node being well-formed.
C4_Witness ==
    /\ pc = "rejected"
    /\ \E p \in NodePlaces \ TargetPlaces :
          /\ RulesBroken(NodeAt(p)) = {"terminal_has_publishers"}
          /\ \A q \in NodePlaces \ {p} : RulesBroken(NodeAt(q)) = {}

\* ---------------------------------------------------------------------- C9
\* C9: the validator rejects only on a rule violation: a rejected document
\* has a node that breaks one of the seven rules.
C9_RejectsOnlyViolations == (pc = "rejected") => HasViolation

\* ---------------------------------------------------------------------- C8
\* The names a replica of node n can carry.
ReplicaNames(n) ==
    {n["name"]} \cup {n["name"] \o "_" \o ToString(k) : k \in 1..Quantity(n)}

\* C8: environment selection.  Every descriptor is a replica of a node of
\* an environment named TargetEnv; when no environment has that name every
\* call of get_nodes returns the empty sequence and none raises.
C8_EnvironmentSelection ==
    /\ \A d \in Descriptors :
          \E p \in TargetPlaces : d.name \in ReplicaNames(NodeAt(p))
    /\ (TargetPlaces = {} /\ Loaded)
          => /\ pc # "crashed"
             /\ nodes = <<>>
             /\ \A c \in DOMAIN returns : returns[c] = <<>>

\* Expanded with descriptors, next to an environment of another name that
\* has nodes.
C8_Witness ==
    /\ pc = "expanded"
    /\ nodes # <<>>
    /\ TargetPlaces # {}
    /\ NodePlaces \ TargetPlaces # {}

\* ---------------------------------------------------------------------- C1
\* C1: expansion is idempotent on repeated calls: every call of get_nodes
\* on the instance returns the sequence the first call returned.
C1_RepeatedCallsAgree == \A c \in DOMAIN returns : returns[c] = returns[1]

\* ---------------------------------------------------------------------- C2
\* The descriptors of the first call that are replicas of node n, in order.
ReplicasOf(n) ==
    SelectSeq(returns[1], LAMBDA d : d.name \in ReplicaNames(n))

\* C2: the node quantity expansion law.  In what the first call returns,
\* a node X of quantity 1 (omitted or written) has the one descriptor X, a
\* node of quantity q > 1 the descriptors X_1 .. X_q in this order, and
\* the replicas of a node carry the same parameters.
C2_NodeQuantityLaw ==
    returns # <<>> =>
        \A p \in TargetPlaces :
            LET n == NodeAt(p)
                D == ReplicasOf(n)
            IN /\ [k \in DOMAIN D |-> D[k].name]
                     = NamesFor(n["name"], Quantity(n))
               /\ \A k \in DOMAIN D : D[k].parameters = D[1].parameters

\* ---------------------------------------------------------------------- C7
RECURSIVE QuantitySum(_)
\* The sum of the quantities of a list of specs.
QuantitySum(specs) ==
    IF specs = <<>> THEN 0
    ELSE Quantity(Head(specs)) + QuantitySum(Tail(specs))

RECURSIVE TargetReplicas(_)
\* The number of node replicas of the environments named TargetEnv.
TargetReplicas(environments) ==
    IF environments = <<>> THEN 0
    ELSE (IF Head(environments)["name"] = TargetEnv
          THEN QuantitySum(Head(environments)["nodes"]) ELSE 0)
         + TargetReplicas(Tail(environments))

\* C7: expansion has no error path on validated input: get_nodes never
\* raises on a document validate_config accepted, and what it returns
\* has a descriptor for every node replica of the expanded environment.
C7_NoErrorPath ==
    /\ pc # "crashed"
    /\ returns # <<>> => Len(returns[1]) = TargetReplicas(Environments)

\* ---------------------------------------------------------------------- C5
\* The violations of the node at place p: where each is (topic 0 for a
\* rule on the node itself, i for publisher i, Len(publishers) + i for
\* subscriber i) and the diagnosis that names the rule and the offender.
ViolationsAt(p) ==
    LET n == NodeAt(p)
        pubs == Publishers(n)
        subs == Subscribers(n)
        V(t, msg) == [place |-> p, topic |-> t, msg |-> msg]
    IN {V(0, "Invalid node quantity for node '" \o n["name"] \o "'") :
            x \in {1} \cap {IF Quantity(n) < 1 THEN 1 ELSE 0}}
       \cup {V(i, "Invalid publisher quantity for publisher '"
                  \o pubs[i]["name"] \o "' in node '" \o n["name"] \o "'") :
            i \in {i \in DOMAIN pubs : Quantity(pubs[i]) < 1}}
       \cup {V(i, "Publisher '" \o pubs[i]["name"] \o "' in node '"
                  \o n["name"]
                  \o "' must have at least two of the following parameters: bandwidth, msg_size, msg_frequency") :
            i \in {i \in DOMAIN pubs : Cardinality(FieldsOf(pubs[i])) < 2}}
       \cup {V(Len(pubs) + i, "Invalid subscriber quantity for subscriber '"
                  \o subs[i]["name"] \o "' in node '" \o n["name"] \o "'") :
            i \in {i \in DOMAIN subs : Quantity(subs[i]) < 1}}
       \cup {V(0, "Node '" \o n["name"]
                  \o "' cannot be both a terminal node and a root node") :
            x \in {1} \cap {IF IsRoot(n) /\ IsTerminal(n) THEN 1 ELSE 0}}
       \cup {V(0, "Root node '" \o n["name"] \o "' cannot have subscribers") :
            x \in {1} \cap {IF IsRoot(n) /\ Len(subs) > 0 THEN 1 ELSE 0}}
       \cup {V(0, "Terminal node '" \o n["name"] \o "' cannot have publishers") :
            x \in {1} \cap {IF IsTerminal(n) /\ Len(pubs) > 0 THEN 1 ELSE 0}}

Violations == UNION {ViolationsAt(p) : p \in NodePlaces}

\* w lies before v in document order: in an earlier environment, in an
\* earlier node of the same environment, or both on topics of the same
\* node, w's declared first (publishers before subscribers).  A rule on
\* the node itself is not ordered against the rules on its topics.
Before(w, v) ==
    \/ w.place[1] < v.place[1]
    \/ w.place[1] = v.place[1] /\ w.place[2] < v.place[2]
    \/ w.place = v.place /\ w.topic > 0 /\ v.topic > 0 /\ w.topic < v.topic

\* C5: fail-fast in document order.  When a rejected document has several
\* violations, the error raised is the diagnosis of a violation that no
\* other violation precedes in document order.
C5_FirstViolationReported ==
    (pc = "rejected" /\ Cardinality(Violations) >= 2) =>
        \E v \in Violations :
            /\ exc.msg = v.msg
            /\ ~\E w \in Violations : Before(w, v)

\* --------------------------------------------------------------- C6, C10
\* The topic names spec number i of a list produces.
KeysOf(specs, i) == Range(NamesFor(specs[i]["name"], Quantity(specs[i])))

AllKeys(specs) == UNION {KeysOf(specs, i) : i \in DOMAIN specs}

\* The last spec of the list, in declaration order, that produces key.
LastProducer(specs, key) ==
    CHOOSE i \in DOMAIN specs :
        /\ key \in KeysOf(specs, i)
        /\ \A j \in DOMAIN specs : key \in KeysOf(specs, j) => j <= i

\* What a publisher's topics map to: its fields present, with their values.
CharacterizationOf(P) == [f \in FieldsOf(P) |-> P[f]]

\* What a subscriber's topics map to.
SourceOf(S) == [node |-> S["node"]]

\* No topic name is produced twice by a list of specs.
NoSharedKey(specs) ==
    /\ \A i, j \in DOMAIN specs :
          i # j => KeysOf(specs, i) \cap KeysOf(specs, j) = {}
    /\ \A i \in DOMAIN specs :
          Cardinality(KeysOf(specs, i)) = Quantity(specs[i])

\* The places of the nodes descriptor d can be a replica of.
PlacesOf(d) == {p \in TargetPlaces : d.name \in ReplicaNames(NodeAt(p))}

\* C6 as stated: the topic expansion law.  In every descriptor, each
\* publisher P of its node has its keys (P, or P_1 .. P_q) in
\* publish_topics, each mapping to P's characterization, and each
\* subscriber S has its keys in subscribe_topics, each mapping to
\* {node: S's source reference}.
C6_TopicLawAsStated ==
    \A d \in Descriptors : \A p \in PlacesOf(d) :
        LET pubs == Publishers(NodeAt(p))
            subs == Subscribers(NodeAt(p))
            pt == d.parameters[1].publish_topics
            st == d.parameters[1].subscribe_topics
        IN /\ \A i \in DOMAIN pubs : \A key \in KeysOf(pubs, i) :
                 key \in DOMAIN pt /\ pt[key] = CharacterizationOf(pubs[i])
           /\ \A i \in DOMAIN subs : \A key \in KeysOf(subs, i) :
                 key \in DOMAIN st /\ st[key] = SourceOf(subs[i])

\* C6 amended: the keys of publish_topics are exactly the names the
\* publishers produce, and each maps to the characterization of the last
\* publisher, in declaration order, that produces it (P's own unless a
\* later publisher of the node produces the same name); likewise for
\* subscribe_topics and the subscribers.
C6_TopicLaw ==
    \A d \in Descriptors : \A p \in PlacesOf(d) :
        LET pubs == Publishers(NodeAt(p))
            subs == Subscribers(NodeAt(p))
            pt == d.parameters[1].publish_topics
            st == d.parameters[1].subscribe_topics
        IN /\ DOMAIN pt = AllKeys(pubs)
           /\ \A key \in AllKeys(pubs) :
                 pt[key] = CharacterizationOf(pubs[LastProducer(pubs, key)])
           /\ DOMAIN st = AllKeys(subs)
           /\ \A key \in AllKeys(subs) :
                 st[key] = SourceOf(subs[LastProducer(subs, key)])

\* A descriptor of a node with a publisher of quantity 2 whose first
\* replica's name is also produced by a later publisher with other fields.
C6_Witness ==
    \E d \in Descriptors : \E p \in PlacesOf(d) :
        LET pubs == Publishers(NodeAt(p))
        IN \E i, j \in DOMAIN pubs :
              /\ i < j
              /\ Quantity(pubs[i]) = 2
              /\ KeysOf(pubs, i) \cap KeysOf(pubs, j) # {}
              /\ FieldsOf(pubs[i]) # FieldsOf(pubs[j])

\* C10 as stated: no topic replica is lost.  In every descriptor the size
\* of publish_topics is the sum of the node's publisher quantities and the
\* size of subscribe_topics the sum of its subscriber quantities.
C10_NoReplicaLostAsStated ==
    \A d \in Descriptors : \A p \in PlacesOf(d) :
        /\ Cardinality(DOMAIN d.parameters[1].publish_topics)
              = QuantitySum(Publishers(NodeAt(p)))
        /\ Cardinality(DOMAIN d.parameters[1].subscribe_topics)
              = QuantitySum(Subscribers(NodeAt(p)))

\* C10 amended: the size of publish_topics is the number of distinct
\* names the publishers produce; it is the sum of the publisher quantities
\* exactly when no name is produced twice, and smaller otherwise; likewise
\* for subscribe_topics.
C10_ReplicasKept ==
    \A d \in Descriptors : \A p \in PlacesOf(d) :
        LET pubs == Publishers(NodeAt(p))
            subs == Subscribers(NodeAt(p))
            np == Cardinality(DOMAIN d.parameters[1].publish_topics)
            ns == Cardinality(DOMAIN d.parameters[1].subscribe_topics)
        IN /\ np = Cardinality(AllKeys(pubs))
           /\ IF NoSharedKey(pubs) THEN np = QuantitySum(pubs)
              ELSE np < QuantitySum(pubs)
           /\ ns = Cardinality(AllKeys(subs))
           /\ IF NoSharedKey(subs) THEN ns = QuantitySum(subs)
              ELSE ns < QuantitySum(subs)

\* A descriptor of a node with publisher `cam` of quantity 2 next to a
\* publisher named `cam_1`.
C10_Witness ==
    /\ pc = "expanded"
    /\ \E d \in Descriptors : \E p \in PlacesOf(d) :
          LET pubs == Publishers(NodeAt(p))
          IN /\ Len(pubs) = 2
             /\ pubs[1]["name"] = "cam" /\ Quantity(pubs[1]) = 2
             /\ pubs[2]["name"] = "cam_1" /\ Quantity(pubs[2]) = 1

====
